---------------------------- MODULE Spec2Model ----------------------------
(***************************************************************************)
(* Model of the Laminar service verifier (examples/05_verify_service.py)   *)
(* and of the shared configuration it imports (examples/config.py).        *)
(*                                                                         *)
(* Strings are sequences of characters (environment values, the API key)   *)
(* or sequences of text fragments (details, printed lines), so that        *)
(* str.strip, f-string formatting and "contains" are computed, not         *)
(* assumed.  The outcome of every library call (httpx, lmnr, the           *)
(* OpenTelemetry SDK and exporters) is an input chosen with \E.            *)
(***************************************************************************)
EXTENDS Integers, Sequences, FiniteSets, TLC

VARIABLES
    environ,    \* os.environ: a function whose DOMAIN is the set of variables that are set
    config,     \* module globals of examples.config: empty until the import has run
    pc,         \* position of main()
    api_key,    \* main(): api_key (<<>> until get_api_key has returned)
    results,    \* main(): results: list[bool]
    printed,    \* per label, how many status lines _check has printed
    out,        \* the last _check call: its arguments and the line it printed
    reply,      \* outcome of the last library call sequence a probe made
    started,    \* the probes that main() has entered
    export,     \* per export probe: flush flag seen, pipeline lifecycle, exception, result
    stderr,     \* what was written to the error stream
    exitCode    \* process exit status, meaningful when pc = "exited"

vars == <<environ, config, pc, api_key, results, printed, out, reply, started,
          export, stderr, exitCode>>

----------------------------------------------------------------------------
(* Bounds and input domains *)

MaxKeyLen == 2

Whitespace == {" ", "\t"}
KeyChars == {" ", "k"}

RECURSIVE SeqsUpTo(_, _)
SeqsUpTo(S, n) ==
    IF n = 0 THEN {<<>>}
    ELSE LET shorter == SeqsUpTo(S, n - 1)
         IN  shorter \cup {Append(s, c) : s \in shorter, c \in S}

KeyValues == SeqsUpTo(KeyChars, MaxKeyLen)
UrlValues == {<<>>, <<"https://staging.example">>}

StatusCodes == {200, 204, 400, 401, 404, 415, 500}
ExcTexts == {<<"Connection refused">>, <<>>}

UrlNames == {"LAMINAR_BASE_URL", "LAMINAR_OTLP_GRPC_URL", "LAMINAR_OTLP_HTTP_URL"}
KeyName == "LAMINAR_API_KEY"

UiLabel == "UI reachable"
OtlpHttpLabel == "OTLP/HTTP endpoint"
OtlpGrpcLabel == "OTLP/gRPC endpoint (HTTP/2 :443)"
SdkLabel == "lmnr SDK trace export"
GrpcExportLabel == "OTLP/gRPC trace export"
HttpExportLabel == "OTLP/HTTP trace export"
Labels == {UiLabel, OtlpHttpLabel, OtlpGrpcLabel, SdkLabel, GrpcExportLabel, HttpExportLabel}
ExportLabels == {SdkLabel, GrpcExportLabel, HttpExportLabel}
DirectLabels == {GrpcExportLabel, HttpExportLabel}

----------------------------------------------------------------------------
(* examples/config.py *)

\* str.strip(): drop leading and trailing whitespace.
RECURSIVE lstrip(_)
lstrip(s) ==
    IF s = <<>> THEN s
    ELSE IF Head(s) \in Whitespace THEN lstrip(Tail(s)) ELSE s

RECURSIVE rstrip(_)
rstrip(s) ==
    IF s = <<>> THEN s
    ELSE IF s[Len(s)] \in Whitespace THEN rstrip(SubSeq(s, 1, Len(s) - 1)) ELSE s

strip_none(s) == s

strip(s) == rstrip(lstrip(s))

\* os.environ.get(name, default) with a mutation that also defaults on "".
EnvironGet_orEmpty(env, name, default) ==
    IF name \in DOMAIN env /\ env[name] # <<>> THEN env[name] ELSE default

\* os.environ.get(name, default)
EnvironGet(env, name, default) ==
    IF name \in DOMAIN env THEN env[name] ELSE default

DefaultUrl(name) ==
    CASE name = "LAMINAR_BASE_URL" -> <<"https://laminar.orbitronai.com">>
      [] name = "LAMINAR_OTLP_GRPC_URL" -> <<"https://otlp-grpc.laminar.orbitronai.com:443">>
      [] name = "LAMINAR_OTLP_HTTP_URL" -> <<"https://otlp-http.laminar.orbitronai.com">>

\* The three module-level assignments of config.py.
ResolveUrls(env) ==
    [BASE_URL |-> EnvironGet(env, "LAMINAR_BASE_URL", DefaultUrl("LAMINAR_BASE_URL")),
     OTLP_GRPC_URL |-> EnvironGet(env, "LAMINAR_OTLP_GRPC_URL", DefaultUrl("LAMINAR_OTLP_GRPC_URL")),
     OTLP_HTTP_URL |-> EnvironGet(env, "LAMINAR_OTLP_HTTP_URL", DefaultUrl("LAMINAR_OTLP_HTTP_URL"))]

GlobalOf(name) ==
    CASE name = "LAMINAR_BASE_URL" -> "BASE_URL"
      [] name = "LAMINAR_OTLP_GRPC_URL" -> "OTLP_GRPC_URL"
      [] name = "LAMINAR_OTLP_HTTP_URL" -> "OTLP_HTTP_URL"

Remediation == <<"ERROR: LAMINAR_API_KEY is not set.">>
Traceback == <<"Traceback (most recent call last):">>

----------------------------------------------------------------------------
(* examples/05_verify_service.py: helpers *)

\* _check: the printed line "  [PASS|FAIL] label" followed by the separator and the detail, if any.
CheckLine(label, ok, detail) ==
    <<IF ok THEN "PASS" ELSE "FAIL", label>>
        \o (IF detail # <<>> THEN <<" - ">> \o detail ELSE <<>>)

\* f"HTTP {resp.status_code}"
HttpDetail(status) == <<"HTTP ", ToString(status)>>

UiOk_anySuccess(status) == status \in 200..299

\* resp.status_code == 200
UiOk(status) == status = 200

OtlpHttpAlive_no415 == {200, 400, 401}

\* (200, 400, 401, 415)
OtlpHttpAlive == {200, 400, 401, 415}

GrpcOk_only200(status) == status = 200

\* check_otlp_grpc_reachable passes True whatever the status
GrpcOk(status) == TRUE

All_any(rs) == \E i \in 1..Len(rs) : rs[i]

\* all(results)
All(rs) == \A i \in 1..Len(rs) : rs[i]

NoExport == [flush |-> "none", pipeline |-> "none", raised |-> FALSE, passed |-> "none"]
NoReply == [kind |-> "none", status |-> 0, text |-> <<>>, at |-> "none"]
NoOut == [label |-> "", ok |-> FALSE, detail |-> <<>>, line |-> <<>>]

Flag(b) == IF b THEN "true" ELSE "false"

----------------------------------------------------------------------------
(* Initial states: any environment, nothing imported yet *)

KeyEnvs == {[n \in {} |-> <<>>]} \cup {[n \in {KeyName} |-> k] : k \in KeyValues}
UrlEnvs == UNION {[D -> UrlValues] : D \in SUBSET UrlNames}

Init ==
    /\ \E ke \in KeyEnvs, ue \in UrlEnvs : environ = ke @@ ue
    /\ config = [n \in {} |-> <<>>]
    /\ pc = "import"
    /\ api_key = <<>>
    /\ results = <<>>
    /\ printed = [l \in Labels |-> 0]
    /\ out = NoOut
    /\ reply = NoReply
    /\ started = {}
    /\ export = [l \in ExportLabels |-> NoExport]
    /\ stderr = <<>>
    /\ exitCode = 0

\* from examples.config import ...: the module body runs once.
ImportConfig ==
    /\ pc = "import"
    /\ config' = ResolveUrls(environ)
    /\ pc' = "get_api_key"
    /\ UNCHANGED <<environ, api_key, results, printed, out, reply, started,
                   export, stderr, exitCode>>

\* main(): api_key = get_api_key()
GetApiKey ==
    /\ pc = "get_api_key"
    /\ LET key == strip(EnvironGet(environ, KeyName, <<>>))
       IN  IF key = <<>>
           THEN /\ stderr' = Remediation
                /\ exitCode' = 1
                /\ pc' = "exited"
                /\ UNCHANGED api_key
           ELSE /\ api_key' = key
                /\ pc' = "ui"
                /\ UNCHANGED <<stderr, exitCode>>
    /\ UNCHANGED <<environ, config, results, printed, out, reply, started, export>>

\* _check(label, ok, detail): print one status line, return ok (appended by main).
Check(label, ok, detail) ==
    /\ out' = [label |-> label, ok |-> ok, detail |-> detail,
               line |-> CheckLine(label, ok, detail)]
    /\ printed' = [printed EXCEPT ![label] = @ + 1]
    /\ results' = Append(results, ok)

\* An exception that leaves main(): traceback on the error stream, status 1.
Uncaught ==
    /\ stderr' = Traceback
    /\ exitCode' = 1
    /\ pc' = "exited"
    /\ UNCHANGED <<out, printed, results>>

\* What an httpx request can do: return a response or raise.
HttpReplies ==
    {[kind |-> "status", status |-> c, text |-> <<>>, at |-> "request"] : c \in StatusCodes}
    \cup {[kind |-> "exc", status |-> 0, text |-> t, at |-> "request"] : t \in ExcTexts}

\* With httpx.Client(...) as client: opening or closing the client can raise as well.
ClientReplies ==
    HttpReplies
    \cup {[kind |-> "exc", status |-> 0, text |-> t, at |-> a] :
            t \in ExcTexts, a \in {"open", "close"}}

\* results.append(check_ui_reachable())
CheckUiReachable ==
    /\ pc = "ui"
    /\ started' = started \cup {UiLabel}
    /\ \E r \in HttpReplies :
        /\ reply' = r
        /\ IF r.kind = "status"
           THEN Check(UiLabel, UiOk(r.status), HttpDetail(r.status))
           ELSE Check(UiLabel, FALSE, r.text)
    /\ pc' = "otlp_http"
    /\ UNCHANGED <<environ, config, api_key, export, stderr, exitCode>>

\* results.append(check_otlp_http_reachable())
CheckOtlpHttpReachable ==
    /\ pc = "otlp_http"
    /\ started' = started \cup {OtlpHttpLabel}
    /\ \E r \in HttpReplies :
        /\ reply' = r
        /\ IF r.kind = "status"
           THEN Check(OtlpHttpLabel, r.status \in OtlpHttpAlive, HttpDetail(r.status))
           ELSE Check(OtlpHttpLabel, FALSE, r.text)
    /\ pc' = "otlp_grpc"
    /\ UNCHANGED <<environ, config, api_key, export, stderr, exitCode>>

\* results.append(check_otlp_grpc_reachable())
CheckOtlpGrpcReachable ==
    /\ pc = "otlp_grpc"
    /\ started' = started \cup {OtlpGrpcLabel}
    /\ \E r \in ClientReplies :
        /\ reply' = r
        /\ IF r.kind = "status"
           THEN Check(OtlpGrpcLabel, GrpcOk(r.status), HttpDetail(r.status))
           ELSE Check(OtlpGrpcLabel, FALSE, r.text)
    /\ pc' = "sdk"
    /\ UNCHANGED <<environ, config, api_key, export, stderr, exitCode>>

\* What the library calls of an export probe can do: raise at one of the steps
\* (at, text), or all return, the flush reporting `flushed`.  A raising
\* shutdown comes after a flush that has already reported.
Outcomes(steps, afterFlush) ==
    {[at |-> a, text |-> t, flushed |-> FALSE] : a \in steps \ afterFlush, t \in ExcTexts}
    \cup {[at |-> a, text |-> t, flushed |-> f] : a \in afterFlush, t \in ExcTexts, f \in BOOLEAN}
    \cup {[at |-> "none", text |-> <<>>, flushed |-> f] : f \in BOOLEAN}

ReplyOf(o) ==
    [kind |-> IF o.at = "none" THEN "done" ELSE "exc", status |-> 0,
     text |-> o.text, at |-> o.at]

\* from lmnr import ...; Laminar.initialize(...); _dummy_op(); Laminar.flush()
SdkSteps == {"import", "initialize", "call", "flush"}

\* results.append(check_sdk_export(api_key))
CheckSdkExport ==
    /\ pc = "sdk"
    /\ started' = started \cup {SdkLabel}
    /\ \E o \in Outcomes(SdkSteps, {}) :
        /\ reply' = ReplyOf(o)
        /\ IF o.at = "none"
           THEN /\ Check(SdkLabel, TRUE, <<>>)
                /\ export' = [export EXCEPT ![SdkLabel] =
                        [flush |-> Flag(o.flushed), pipeline |-> "none",
                         raised |-> FALSE, passed |-> "true"]]
           ELSE /\ Check(SdkLabel, FALSE, o.text)
                /\ export' = [export EXCEPT ![SdkLabel] =
                        [flush |-> "none", pipeline |-> "none",
                         raised |-> TRUE, passed |-> "false"]]
    /\ pc' = "grpc_export"
    /\ UNCHANGED <<environ, config, api_key, stderr, exitCode>>

\* "exporter": GrpcExporter(...) / HttpExporter(...) in the caller;
\* "construct": Resource.create .. provider.get_tracer; "span": the with block;
\* "flush": provider.force_flush; "shutdown": provider.shutdown.
DirectSteps == {"exporter", "construct", "span", "flush", "shutdown"}

\* The pipeline exists once the construction lines have all returned.
PipelineBuilt(o) == o.at \in {"span", "flush", "shutdown", "none"}

\* provider.force_flush has returned a flag.
FlushReturned(o) == o.at \in {"shutdown", "none"}

\* _export_and_check(label, exporter): everything from Resource.create on is in the try.
ExportAndCheck(label, o) ==
    IF o.at = "none"
    THEN /\ Check(label, o.flushed, <<>>)
         /\ export' = [export EXCEPT ![label] =
                 [flush |-> Flag(o.flushed), pipeline |-> "shutdown",
                  raised |-> FALSE, passed |-> Flag(o.flushed)]]
    ELSE /\ Check(label, FALSE, o.text)
         /\ export' = [export EXCEPT ![label] =
                 [flush |-> IF FlushReturned(o) THEN Flag(o.flushed) ELSE "none",
                  pipeline |-> IF o.at = "shutdown" THEN "shutdown_raised"
                               ELSE IF PipelineBuilt(o) THEN "created" ELSE "none",
                  raised |-> TRUE, passed |-> "false"]]

\* check_grpc_export / check_http_export: the exporter is constructed outside the
\* try of _export_and_check, so an exception there leaves the probe and main().
DirectExport(label, next) ==
    /\ started' = started \cup {label}
    /\ \E o \in Outcomes(DirectSteps, {"shutdown"}) :
        /\ reply' = ReplyOf(o)
        /\ IF o.at = "exporter"
           THEN /\ Uncaught
                /\ export' = [export EXCEPT ![label] =
                        [flush |-> "none", pipeline |-> "none",
                         raised |-> TRUE, passed |-> "none"]]
           ELSE /\ ExportAndCheck(label, o)
                /\ pc' = next
                /\ UNCHANGED <<stderr, exitCode>>
    /\ UNCHANGED <<environ, config, api_key>>

\* results.append(check_grpc_export(api_key))
CheckGrpcExport ==
    /\ pc = "grpc_export"
    /\ DirectExport(GrpcExportLabel, "http_export")

\* results.append(check_http_export(api_key))
CheckHttpExport ==
    /\ pc = "http_export"
    /\ DirectExport(HttpExportLabel, "summary")

\* Summary: all(results) decides between a normal return and sys.exit(1).
Summary ==
    /\ pc = "summary"
    /\ exitCode' = IF All(results) THEN 0 ELSE 1
    /\ pc' = "exited"
    /\ UNCHANGED <<environ, config, api_key, results, printed, out, reply,
                   started, export, stderr>>

Next ==
    \/ ImportConfig
    \/ GetApiKey
    \/ CheckUiReachable
    \/ CheckOtlpHttpReachable
    \/ CheckOtlpGrpcReachable
    \/ CheckSdkExport
    \/ CheckGrpcExport
    \/ CheckHttpExport
    \/ Summary

Spec == Init /\ [][Next]_vars

----------------------------------------------------------------------------
(* Properties *)

\* The credential is unset, empty or whitespace-only (stated without strip).
KeyBlank ==
    \/ KeyName \notin DOMAIN environ
    \/ \A i \in 1..Len(environ[KeyName]) : environ[KeyName][i] \in Whitespace

Contains(seq, x) == \E i \in 1..Len(seq) : seq[i] = x

\* The probe with this label is the last one main() has entered.
LastStarted(l) ==
    /\ l \in started
    /\ CASE l = GrpcExportLabel -> HttpExportLabel \notin started
         [] l = HttpExportLabel -> TRUE
         [] OTHER -> FALSE

\* C1: a run with a non-blank credential ends with exit code 0 if and only if
\* six results were collected and all of them are true; any false result
\* gives exit code 1.
C1_ExitZeroIffAllSixPassed ==
    (pc = "exited" /\ api_key # <<>>) =>
        /\ exitCode = 0 <=> (Len(results) = 6 /\ \A i \in 1..6 : results[i])
        /\ (\E i \in 1..Len(results) : ~results[i]) => exitCode = 1

C1_Witness ==
    /\ pc = "exited"
    /\ exitCode = 0
    /\ Len(results) = 6
    /\ api_key # <<>>

\* C2: with the credential unset, empty or whitespace-only, no probe is ever
\* entered, no check result or status line is ever produced, and the run ends
\* with status 1 and the remediation message on the error stream.
C2_BlankKeyExitsBeforeProbes ==
    KeyBlank =>
        /\ started = {}
        /\ results = <<>>
        /\ \A l \in Labels : printed[l] = 0
        /\ reply = NoReply
        /\ pc \in {"import", "get_api_key", "exited"}
        /\ pc = "exited" => (exitCode = 1 /\ stderr = Remediation)

C2_Witness ==
    /\ pc = "exited"
    /\ KeyName \in DOMAIN environ
    /\ Len(environ[KeyName]) >= 1
    /\ KeyBlank
    /\ stderr = Remediation

\* C3: when a run with a non-blank credential has ended, each of the six
\* checks has produced exactly one result, whatever the probes did.
C3_ExactlyOneResultPerCheck ==
    (pc = "exited" /\ api_key # <<>>) =>
        /\ \A l \in Labels : printed[l] = 1
        /\ Len(results) = 6

\* C4: for each of the three export probes that has recorded a result, the
\* result is true exactly when the flush reported success and no exception
\* occurred.
C4_ExportResultEqualsFlushFlag ==
    \A l \in ExportLabels :
        export[l].passed # "none" =>
            (export[l].passed = "true"
                <=> (export[l].flush = "true" /\ ~export[l].raised))

\* C5: a direct export probe that has returned does not leave behind a
\* pipeline it created without having called shutdown on it.
C5_PipelineShutDownOnEveryPath ==
    \A l \in DirectLabels :
        l \in started => export[l].pipeline # "created"

\* C6: an exception raised at any step of a direct export probe is caught in
\* the probe: it yields one failed result whose detail is the exception text,
\* nothing reaches main() and the run goes on.
C6_DirectExportExceptionsCaught ==
    \A l \in DirectLabels :
        (LastStarted(l) /\ reply.kind = "exc") =>
            /\ out.label = l
            /\ ~out.ok
            /\ out.detail = reply.text
            /\ printed[l] = 1
            /\ stderr # Traceback
            /\ pc \in {"http_export", "summary", "exited"} 
            /\ pc = "exited" => Len(results) = 6

\* C7 as stated: each URL is the production default when its variable is
\* absent or set to the empty string, and the variable's value otherwise.
C7_DefaultWhenAbsentOrEmpty ==
    DOMAIN config # {} =>
        \A n \in UrlNames :
            config[GlobalOf(n)] =
                IF n \notin DOMAIN environ \/ environ[n] = <<>>
                THEN DefaultUrl(n) ELSE environ[n]

\* C7 as amended: each URL is the production default when its variable is
\* absent, and the variable's value otherwise, the empty string included.
C7_DefaultWhenAbsentOnly ==
    DOMAIN config # {} =>
        \A n \in UrlNames :
            config[GlobalOf(n)] =
                IF n \notin DOMAIN environ THEN DefaultUrl(n) ELSE environ[n]

C7_Witness ==
    /\ DOMAIN config # {}
    /\ "LAMINAR_BASE_URL" \in DOMAIN environ
    /\ environ["LAMINAR_BASE_URL"] = <<>>
    /\ config.BASE_URL = <<>>
    /\ "LAMINAR_OTLP_HTTP_URL" \notin DOMAIN environ
    /\ config.OTLP_HTTP_URL = <<"https://otlp-http.laminar.orbitronai.com">>

\* C8: check_otlp_http_reachable passes if and only if a response came back
\* with status 200, 400, 401 or 415; otherwise it records a failed result;
\* either way it returns to main(), which appends the result and goes on.
C8_OtlpHttpPassIffAliveStatus ==
    out.label = OtlpHttpLabel =>
        /\ out.ok <=> (reply.kind = "status" /\ reply.status \in {200, 400, 401, 415})
        /\ Len(results) = 2
        /\ results[2] = out.ok
        /\ printed[OtlpHttpLabel] = 1
        /\ pc = "otlp_grpc"
        /\ stderr = <<>>

C8_Witness ==
    /\ out.label = OtlpHttpLabel
    /\ reply.kind = "status"
    /\ reply.status = 415
    /\ out.ok

\* C9: check_ui_reachable passes if and only if a response came back with
\* status 200; for another status the failed result's detail contains the
\* status code; for an exception the detail is the exception text; nothing
\* is raised to main().
C9_UiPassIffStatus200 ==
    out.label = UiLabel =>
        /\ out.ok <=> (reply.kind = "status" /\ reply.status = 200)
        /\ (reply.kind = "status" /\ reply.status # 200) =>
                Contains(out.detail, ToString(reply.status))
        /\ reply.kind = "exc" => out.detail = reply.text
        /\ out.line[1] = (IF out.ok THEN "PASS" ELSE "FAIL")
        /\ results = <<out.ok>>
        /\ printed[UiLabel] = 1
        /\ pc = "otlp_http"
        /\ stderr = <<>>

C9_Witness ==
    /\ out.label = UiLabel
    /\ reply.kind = "status"
    /\ reply.status = 404
    /\ ~out.ok
    /\ out.detail = <<"HTTP ", "404">>

\* C10: check_otlp_grpc_reachable passes for every response whatever its
\* status, fails exactly when opening the client, the request or closing the
\* client raises, the detail then being the exception text; nothing is
\* raised to main().
C10_GrpcPassIffResponse ==
    out.label = OtlpGrpcLabel =>
        /\ out.ok <=> reply.kind = "status"
        /\ reply.kind = "exc" => out.detail = reply.text
        /\ Len(results) = 3
        /\ results[3] = out.ok
        /\ printed[OtlpGrpcLabel] = 1
        /\ pc = "sdk"
        /\ stderr = <<>>

C10_Witness ==
    /\ out.label = OtlpGrpcLabel
    /\ reply.kind = "status"
    /\ reply.status = 500
    /\ out.ok

=============================================================================
